---- MODULE Spec2Model ----
(***************************************************************************)
(* pg_diff: compare two postgres databases, or report on one of them.      *)
(*                                                                         *)
(* The module models src/pg_diff/pg_diff.py: the argument validation, the  *)
(* per-category load of a Document from one database connection, the two   *)
(* load threads of DBDiffBase.diff and the structural diff that follows    *)
(* the join, the info-only mode of diff_or_info, and the describe-table    *)
(* text normalizer DBTableSchemaDiff._format_raw_schema.                   *)
(*                                                                         *)
(* Text is modelled as a sequence of tokens.  A token stands for a run of  *)
(* characters ("Table", "bucardo", "|", " ", "\n"); no token is a prefix   *)
(* of another, so the lexicographic order of token sequences is the order  *)
(* of the strings they stand for.                                          *)
(***************************************************************************)
EXTENDS Integers, Sequences, FiniteSets, TLC

(***************************************************************************)
(* Bounds of the model.                                                    *)
(***************************************************************************)
\* most relations (tables or sequences) one database holds
MaxTables == 2
\* most lines of a describe-table text handed to the normalizer
MaxLines == 4

(***************************************************************************)
(* Module constants of pg_diff.py.                                         *)
(***************************************************************************)
DIFF_TYPE_TABLE_COUNT == "table_count"
DIFF_TYPE_TABLE_NAME == "table_name"
DIFF_TYPE_ROW_COUNT == "row_count"
DIFF_TYPE_TABLE_SCHEMA == "table_schema"
DIFF_TYPE_TABLE_SIZE == "table_size"
DIFF_TYPE_INDEX_SIZE == "index_size"
DIFF_TYPE_TABLE_TOTAL_SIZE == "table_total_size"
DIFF_TYPE_SEQUENCE == "sequence"

IGNORE_SCHEMA_SECTIONS == {"bucardo", "pglogical"}

IGNORE_SCHEMAS == {"pg_catalog", "information_schema", "bucardo", "pglogical"}

(***************************************************************************)
(* Strings: str.strip, str.split, str.startswith, `in`, and the order that *)
(* list.sort uses.                                                         *)
(***************************************************************************)
\* the tokens, in the order of the characters they start with (ASCII)
Alphabet ==
    << "\n", " ", "---", "Check constraints:", "Column", "Columns:",
       "Foreign-key constraints:", "Indexes:", "Referenced by:", "Table",
       "Triggers:", "Type", "a", "bucardo", "int", "pglogical", "users",
       "x", "|" >>

Code(tok) == CHOOSE i \in 1..Len(Alphabet) : Alphabet[i] = tok

\* a < b for two strings
StrLess(a, b) ==
    \E i \in 1..(Len(a) + 1) :
        /\ i <= Len(b)
        /\ \A j \in 1..(i - 1) : a[j] = b[j]
        /\ \/ i = Len(a) + 1
           \/ Code(a[i]) < Code(b[i])

\* a < b for two lists of strings
ListLess(a, b) ==
    \E i \in 1..(Len(a) + 1) :
        /\ i <= Len(b)
        /\ \A j \in 1..(i - 1) : a[j] = b[j]
        /\ \/ i = Len(a) + 1
           \/ StrLess(a[i], b[i])

RECURSIVE LStrip(_)
LStrip(s) == IF s # <<>> /\ Head(s) \in {" ", "\n"} THEN LStrip(Tail(s)) ELSE s

RECURSIVE RStrip(_)
RStrip(s) ==
    IF s # <<>> /\ s[Len(s)] \in {" ", "\n"}
    THEN RStrip(SubSeq(s, 1, Len(s) - 1))
    ELSE s

\* str.strip()
Strip(s) == RStrip(LStrip(s))

\* str.split(sep): the pieces between the separators, empty ones included
RECURSIVE SplitFrom(_, _, _)
SplitFrom(s, sep, cur) ==
    IF s = <<>> THEN << cur >>
    ELSE IF Head(s) = sep THEN << cur >> \o SplitFrom(Tail(s), sep, <<>>)
    ELSE SplitFrom(Tail(s), sep, Append(cur, Head(s)))

Split(s, sep) == SplitFrom(s, sep, <<>>)

\* str.startswith(prefix), the prefix being one token
StartsWith(s, prefix) == s # <<>> /\ Head(s) = prefix

\* keyword in item
Contains(item, keyword) == \E i \in 1..Len(item) : item[i] = keyword

\* list.sort() of a list of strings
RECURSIVE InsertStr(_, _)
InsertStr(sorted, x) ==
    IF sorted = <<>> THEN << x >>
    ELSE IF StrLess(x, Head(sorted)) THEN << x >> \o sorted
    ELSE << Head(sorted) >> \o InsertStr(Tail(sorted), x)

RECURSIVE SortStrs(_)
SortStrs(l) ==
    IF l = <<>> THEN <<>>
    ELSE InsertStr(SortStrs(SubSeq(l, 1, Len(l) - 1)), l[Len(l)])

\* list.sort() of a list of lists of strings
RECURSIVE InsertList(_, _)
InsertList(sorted, x) ==
    IF sorted = <<>> THEN << x >>
    ELSE IF ListLess(x, Head(sorted)) THEN << x >> \o sorted
    ELSE << Head(sorted) >> \o InsertList(Tail(sorted), x)

RECURSIVE SortLists(_)
SortLists(l) ==
    IF l = <<>> THEN <<>>
    ELSE InsertList(SortLists(SubSeq(l, 1, Len(l) - 1)), l[Len(l)])

(***************************************************************************)
(* DBTableSchemaDiff._format_raw_schema.  The result is                    *)
(* [error |-> "", value |-> the dict] or [error |-> "IndexError"], the     *)
(* exception an item_list[index] past the end raises.                      *)
(***************************************************************************)
section_title_list ==
    << <<"Indexes:">>, <<"Foreign-key constraints:">>, <<"Referenced by:">>,
       <<"Triggers:">> >>

IsSectionTitle(item) == \E i \in 1..Len(section_title_list) : section_title_list[i] = item

ColumnsKey == <<"Columns:">>

Raised(name) == [error |-> name, value |-> <<>>]

Returned(v) == [error |-> "", value |-> v]

\* item_list = [item.strip() for item in raw_schema.split('\n') if item]
RECURSIVE StripNonEmpty(_)
StripNonEmpty(l) ==
    IF l = <<>> THEN <<>>
    ELSE IF Head(l) = <<>> THEN StripNonEmpty(Tail(l))
    ELSE << Strip(Head(l)) >> \o StripNonEmpty(Tail(l))

ItemList(raw_schema) == StripNonEmpty(Split(raw_schema, "\n"))

\* [element.strip() for element in item.split('|')]
RECURSIVE StripAll(_)
StripAll(l) == IF l = <<>> THEN <<>> ELSE << Strip(Head(l)) >> \o StripAll(Tail(l))

ColumnFields(item) == StripAll(Split(item, "|"))

\* one `if item_list[index].startswith(prefix): index += 1`; index is 0-based
\* as in the code, -1 stands for the IndexError of item_list[index]
SkipLine(item_list, index, prefix) ==
    IF index < 0 \/ index >= Len(item_list) THEN -1
    ELSE IF StartsWith(item_list[index + 1], prefix) THEN index + 1
    ELSE index

\* the `while item not in section_title_list` loop over the column rows,
\* entered with item = item_list[index]
RECURSIVE ParseColumns(_, _, _)
ParseColumns(item_list, index, columns) ==
    IF IsSectionTitle(item_list[index + 1])
    THEN [index |-> index, columns |-> columns]
    ELSE LET next == Append(columns, ColumnFields(item_list[index + 1]))
         IN  IF index + 1 >= Len(item_list)
             THEN [index |-> index + 1, columns |-> next]
             ELSE ParseColumns(item_list, index + 1, next)

\* a section loop that never excludes
NeverExcluded(item, exclued_keywords) == FALSE

\* is_excluded of the section loop
IsExcluded(item, exclued_keywords) == \E keyword \in exclued_keywords : Contains(item, keyword)

\* the inner `while item not in section_title_list` loop of one section,
\* entered with item = item_list[index]
RECURSIVE ParseSectionLines(_, _, _, _)
ParseSectionLines(item_list, index, lines, exclued_keywords) ==
    IF IsSectionTitle(item_list[index + 1])
    THEN [index |-> index, lines |-> lines]
    ELSE LET item == item_list[index + 1]
             next == IF IsExcluded(item, exclued_keywords)
                     THEN lines
                     ELSE Append(lines, Strip(item))
         IN  IF index + 1 >= Len(item_list)
             THEN [index |-> index + 1, lines |-> next]
             ELSE ParseSectionLines(item_list, index + 1, next, exclued_keywords)

\* result[key] = v
DictPut(d, key, v) == [k \in (DOMAIN d) \cup {key} |-> IF k = key THEN v ELSE d[k]]

\* the `while index < length` loop over the sections
RECURSIVE ParseSections(_, _, _, _)
ParseSections(item_list, index, result, exclued_keywords) ==
    IF index >= Len(item_list) THEN Returned(result)
    ELSE LET section == item_list[index + 1]
         IN  IF index + 1 >= Len(item_list) THEN Raised("IndexError")
             ELSE LET p == ParseSectionLines(item_list, index + 1, <<>>, exclued_keywords)
                  IN  ParseSections(item_list, p.index,
                                    DictPut(result, section, SortStrs(p.lines)),
                                    exclued_keywords)

_format_raw_schema(raw_schema, exclued_keywords) ==
    LET item_list == ItemList(raw_schema)
        i1 == SkipLine(item_list, 0, "Table")
        i2 == SkipLine(item_list, i1, "Column")
        i3 == SkipLine(item_list, i2, "---")
    IN  IF i3 < 0 \/ i3 >= Len(item_list) THEN Raised("IndexError")
        ELSE LET c == ParseColumns(item_list, i3, <<>>)
             IN  ParseSections(item_list, c.index,
                               DictPut(<<>>, ColumnsKey, SortLists(c.columns)),
                               exclued_keywords)

(***************************************************************************)
(* Values of the program.  A Document value is an integer (row count,     *)
(* size, last value), a string (the owning schema) or a Schema Document;   *)
(* the record keeps the three apart.  None is the absent --target.         *)
(***************************************************************************)
IntVal(n) == [kind |-> "int", n |-> n, s |-> "", d |-> <<>>]

StrVal(s) == [kind |-> "str", n |-> 0, s |-> s, d |-> <<>>]

DictVal(d) == [kind |-> "dict", n |-> 0, s |-> "", d |-> d]

None == [none |-> TRUE, str |-> <<>>]

Str(s) == [none |-> FALSE, str |-> s]

\* a DSN is text of key=value items: a sequence of items, each the pieces
\* item.split('=') gives
SOURCE_DSN ==
    << <<"host", "src">>, <<"user", "u">>, <<"password", "p">>,
       <<"port", "5432">>, <<"dbname", "db">> >>

TARGET_DSN ==
    << <<"host", "tgt">>, <<"user", "u">>, <<"password", "p">>,
       <<"port", "5432">>, <<"dbname", "db">> >>

\* 'source_dsn' and 'target_dsn', the addresses of test_validate_pass
TEST_SOURCE == << <<"source_dsn">> >>

TEST_TARGET == << <<"target_dsn">> >>

Sides == {"source", "target"}

(***************************************************************************)
(* OrderedDict: a sequence of [key, value], one entry per key, in the      *)
(* order the keys were first inserted.                                     *)
(***************************************************************************)
Keys(doc) == {doc[i].key : i \in 1..Len(doc)}

HasKey(doc, key) == \E i \in 1..Len(doc) : doc[i].key = key

Get(doc, key) == doc[CHOOSE i \in 1..Len(doc) : doc[i].key = key].value

\* doc[key] = value
Put(doc, key, value) ==
    IF HasKey(doc, key)
    THEN [i \in 1..Len(doc) |->
             IF doc[i].key = key THEN [key |-> key, value |-> value] ELSE doc[i]]
    ELSE Append(doc, [key |-> key, value |-> value])

(***************************************************************************)
(* The databases.  A relation has a schema, a name and one measure, which  *)
(* stands for what the category reads of it: its row count, its sizes, its *)
(* last value (a sequence), or which describe-table text psql prints.      *)
(***************************************************************************)
RelUniverse ==
    { [schema |-> "public", name |-> "users", measure |-> 1],
      [schema |-> "audit", name |-> "users", measure |-> 2],
      [schema |-> "public", name |-> "orders", measure |-> 1],
      [schema |-> "bucardo", name |-> "q", measure |-> 1] }

Catalogs == {c \in SUBSET RelUniverse : Cardinality(c) <= MaxTables}

\* the names, in the order of the server's collation
NameOrder == << "orders", "q", "users" >>

NameLess(a, b) ==
    (CHOOSE i \in 1..Len(NameOrder) : NameOrder[i] = a)
        < (CHOOSE i \in 1..Len(NameOrder) : NameOrder[i] = b)

RECURSIVE JoinLines(_)
JoinLines(lines) ==
    IF lines = <<>> THEN <<>> ELSE Head(lines) \o <<"\n">> \o JoinLines(Tail(lines))

\* what psql -c "\d table" prints for a relation: measure 2 lists the
\* columns in the other order and has a trigger of a replication schema
DescribeOutput(rel) ==
    IF rel.measure = 1
    THEN JoinLines(<< <<" ", "Table", " ", "users">>,
                      <<" ", "Column", " ", "|", " ", "Type">>,
                      <<"---">>,
                      <<" ", "a", " ", "|", " ", "int">>,
                      <<" ", "x", " ", "|", " ", "int">>,
                      <<"Indexes:">>,
                      <<" ", "a">>,
                      <<>> >>)
    ELSE JoinLines(<< <<" ", "Table", " ", "users">>,
                      <<" ", "Column", " ", "|", " ", "Type">>,
                      <<"---">>,
                      <<" ", "x", " ", "|", " ", "int">>,
                      <<" ", "a", " ", "|", " ", "int">>,
                      <<"Indexes:">>,
                      <<" ", "bucardo", " ", "x">>,
                      <<" ", "a">>,
                      <<>> >>)

(***************************************************************************)
(* The categories and their statements.                                    *)
(***************************************************************************)
DiffClassMapper ==
    [t \in { DIFF_TYPE_TABLE_COUNT, DIFF_TYPE_TABLE_NAME, DIFF_TYPE_ROW_COUNT,
             DIFF_TYPE_TABLE_SCHEMA, DIFF_TYPE_TABLE_SIZE, DIFF_TYPE_INDEX_SIZE,
             DIFF_TYPE_TABLE_TOTAL_SIZE, DIFF_TYPE_SEQUENCE } |->
        CASE t \in {DIFF_TYPE_TABLE_COUNT, DIFF_TYPE_TABLE_NAME} -> "DBTableBasicInfoDiff"
          [] t = DIFF_TYPE_ROW_COUNT -> "DBTableRowCountDiff"
          [] t = DIFF_TYPE_TABLE_SCHEMA -> "DBTableSchemaDiff"
          [] t = DIFF_TYPE_TABLE_SIZE -> "DBTableSizeDiff"
          [] t = DIFF_TYPE_INDEX_SIZE -> "DBIndexSizeDiff"
          [] t = DIFF_TYPE_TABLE_TOTAL_SIZE -> "DBTableTotalSizeDiff"
          [] t = DIFF_TYPE_SEQUENCE -> "DBSequenceDiff"]

\* the classes whose load creates a helper routine
HelperClasses == {"DBTableRowCountDiff", "DBSequenceDiff"}

\* the classes whose Document is keyed by table_name
TableClasses ==
    { "DBTableBasicInfoDiff", "DBTableRowCountDiff", "DBTableSchemaDiff",
      "DBTableSizeDiff", "DBIndexSizeDiff", "DBTableTotalSizeDiff" }

\* create or replace function count_rows(schema text, tablename text)
CREATE_ROW_COUNT_FUNC_SQL == [name |-> "count_rows", args |-> <<"text", "text">>]

\* a drop statement that names the routine with one argument
DropCountRowsOneArg == [name |-> "count_rows", args |-> <<"text">>]

\* drop function if exists count_rows(text, text)
REMOVE_ROW_COUNT_FUNC_SQL == [name |-> "count_rows", args |-> <<"text", "text">>]

\* create or replace function get_seq_last_value(seq_name text)
CREATE_GET_SEQUENCE_LAST_VALUE_FUNC_SQL ==
    [name |-> "get_seq_last_value", args |-> <<"text">>]

\* drop function if exists get_seq_last_value(text, text)
REMOVE_GET_SEQUENCE_LAST_VALUE_FUNC_SQL ==
    [name |-> "get_seq_last_value", args |-> <<"text", "text">>]

CreateFuncSql(class) ==
    IF class = "DBTableRowCountDiff"
    THEN CREATE_ROW_COUNT_FUNC_SQL
    ELSE CREATE_GET_SEQUENCE_LAST_VALUE_FUNC_SQL

RemoveFuncSql(class) ==
    IF class = "DBTableRowCountDiff"
    THEN REMOVE_ROW_COUNT_FUNC_SQL
    ELSE REMOVE_GET_SEQUENCE_LAST_VALUE_FUNC_SQL

\* the rows of information_schema.tables the where clause keeps:
\* table_schema not in IGNORE_SCHEMAS and table_type = 'BASE TABLE'
TABLE_BASIC_INFO_SQL(catalog) == {r \in catalog.tables : r.schema \notin IGNORE_SCHEMAS}

\* the rows of pg_class with relkind = 'S'
SEQUENCE_COUNT_SQL(catalog) == catalog.sequences

\* the relations a category's query selects
Selected(class, catalog) ==
    IF class = "DBSequenceDiff"
    THEN SEQUENCE_COUNT_SQL(catalog)
    ELSE TABLE_BASIC_INFO_SQL(catalog)

\* the (key, value) a load stores for one fetched row: table_data[row[1]] =
\* row[0] or row[2], and table_data[row[0]] = row[1] for a sequence
RowEntry(class, r) ==
    [key |-> r.name,
     value |-> IF class \in {"DBTableBasicInfoDiff", "DBTableSchemaDiff"}
               THEN StrVal(r.schema)
               ELSE IntVal(r.measure)]

\* the order by clause: none for the table inventory, relname for the
\* sequences, "3, 2 desc" for the row counts and the sizes
InOrder(class, a, b) ==
    CASE class \in {"DBTableBasicInfoDiff", "DBTableSchemaDiff"} -> TRUE
      [] class = "DBSequenceDiff" -> ~NameLess(b.name, a.name)
      [] OTHER -> \/ a.measure < b.measure
                  \/ a.measure = b.measure /\ ~NameLess(a.name, b.name)

\* cur.fetchall(): the selected relations in any order the query allows
FetchAll(class, catalog) ==
    LET sel == Selected(class, catalog)
        n == Cardinality(sel)
    IN  { rows \in [1..n -> sel] :
            /\ \A i, j \in 1..n : i # j => rows[i] # rows[j]
            /\ \A i, j \in 1..n : i < j => InOrder(class, rows[i], rows[j]) }

(***************************************************************************)
(* _validate: the Schema of lines 592-608, key by key.                     *)
(***************************************************************************)
\* And(str, lambda x: x in (the eight names))
TypeSchema(x) ==
    x \in { DIFF_TYPE_TABLE_COUNT, DIFF_TYPE_TABLE_NAME, DIFF_TYPE_ROW_COUNT,
            DIFF_TYPE_TABLE_SCHEMA, DIFF_TYPE_TABLE_SIZE, DIFF_TYPE_INDEX_SIZE,
            DIFF_TYPE_TABLE_TOTAL_SIZE, DIFF_TYPE_SEQUENCE }

\* And(str, len)
SourceSchema(x) == ~x.none /\ Len(x.str) > 0

\* a schema that takes a string only
StrOnly(x) == ~x.none

\* Or(str, None)
TargetSchema(x) == ~x.none \/ x = None

\* And(bool)
BoolSchema(x) == x \in BOOLEAN

\* schema.validate(args): the validated mapping, or SchemaError, which
\* _validate turns into exit('Validation error, ...')
_validate(a) ==
    IF /\ TypeSchema(a.type)
       /\ SourceSchema(a.source)
       /\ TargetSchema(a.target)
       /\ BoolSchema(a.version)
       /\ BoolSchema(a.verbose)
       /\ BoolSchema(a.help)
    THEN Returned([type |-> a.type, source |-> a.source, target |-> a.target,
                   version |-> a.version, verbose |-> a.verbose, help |-> a.help])
    ELSE Raised("SystemExit")

\* `if target:` of diff_or_info: None and '' are false
Truthy(x) == ~x.none /\ x.str # <<>>

\* an address psycopg2.connect can parse, and that _load_table_schema's
\* dict([item.split('=') for item in self.dsn.split()]) can: key=value items
IsConnectionForm(dsn) == dsn # <<>> /\ \A i \in 1..Len(dsn) : Len(dsn[i]) = 2

\* TABLE_SCHEMA_PSQL_COMMAND.format(**kwargs) finds every field it names
PsqlCommandArgs(dsn) ==
    /\ IsConnectionForm(dsn)
    /\ {"password", "host", "user", "port", "dbname"} \subseteq {dsn[i][1] : i \in 1..Len(dsn)}

(***************************************************************************)
(* DeepDiff(t1, t2) of two Documents: the keys removed, added, and those   *)
(* whose values differ (values_changed or type_changes under the key).     *)
(***************************************************************************)
RECURSIVE ItemsRemoved(_, _)
ItemsRemoved(t1, t2) ==
    IF t1 = <<>> THEN {}
    ELSE (IF HasKey(t2, Head(t1).key) THEN {} ELSE {Head(t1).key})
             \cup ItemsRemoved(Tail(t1), t2)

RECURSIVE ValuesChanged(_, _)
ValuesChanged(t1, t2) ==
    IF t1 = <<>> THEN {}
    ELSE (IF HasKey(t2, Head(t1).key) /\ Get(t2, Head(t1).key) # Head(t1).value
          THEN {Head(t1).key}
          ELSE {})
             \cup ValuesChanged(Tail(t1), t2)

\* a diff that compares the two Documents entry by entry, in their order
PositionalDiff(t1, t2) ==
    [dictionary_item_added |-> ItemsRemoved(t2, t1),
     dictionary_item_removed |-> ItemsRemoved(t1, t2),
     values_changed |->
         {t1[i].key : i \in {j \in 1..Len(t1) : j <= Len(t2) /\ t1[j] # t2[j]}}]

DeepDiff(t1, t2) ==
    [dictionary_item_added |-> ItemsRemoved(t2, t1),
     dictionary_item_removed |-> ItemsRemoved(t1, t2),
     values_changed |-> ValuesChanged(t1, t2)]

\* `if diff_result:` an empty DeepDiff is false
DiffTruthy(d) ==
    \/ d.dictionary_item_added # {}
    \/ d.dictionary_item_removed # {}
    \/ d.values_changed # {}

NoDiff ==
    [dictionary_item_added |-> {}, dictionary_item_removed |-> {}, values_changed |-> {}]

(***************************************************************************)
(* The info-only branch of diff_or_info, lines 561-580, after the load.    *)
(* The result is what was printed and the exception that ended it.         *)
(***************************************************************************)
\* sum(table_data.values()): 0 + v1 + v2 ..., a TypeError at the first
\* value that is no number
RECURSIVE SumValues(_, _)
SumValues(doc, acc) ==
    IF doc = <<>> THEN Returned(acc)
    ELSE IF Head(doc).value.kind # "int" THEN Raised("TypeError")
    ELSE SumValues(Tail(doc), acc + Head(doc).value.n)

\* 'size' in diff_type
HasSize(t) == t \in {DIFF_TYPE_TABLE_SIZE, DIFF_TYPE_INDEX_SIZE, DIFF_TYPE_TABLE_TOTAL_SIZE}

\* 'count' in diff_type
HasCount(t) == t \in {DIFF_TYPE_TABLE_COUNT, DIFF_TYPE_ROW_COUNT}

\* total after lines 563-573: size(total) and count_format(total) are strings
TotalIsStr(t) == HasSize(t) \/ HasCount(t)

\* the replacement fields of 'Total {}: {}' and the arguments format is given
TOTAL_FORMAT_FIELDS == 2

TOTAL_FORMAT_ARGS == 1

\* 'Total {}: {}'.format(diff_type.replace('_', ' ', total)): str.replace
\* takes total as its count, a TypeError unless total is an integer; format
\* is then given one argument for two fields, an IndexError
FormatTotal(t) ==
    IF TotalIsStr(t) THEN Raised("TypeError")
    ELSE IF TOTAL_FORMAT_ARGS < TOTAL_FORMAT_FIELDS THEN Raised("IndexError")
    ELSE Returned(<<"Total">>)

InfoResult(t, doc, verbose) ==
    LET total == SumValues(doc, 0)
    IN  IF total.error # ""
        THEN [printed |-> <<>>, error |-> total.error]
        ELSE LET listing == IF verbose THEN <<"Info Result:", "listing">> ELSE <<>>
                 line == FormatTotal(t)
             IN  IF line.error # ""
                 THEN [printed |-> listing, error |-> line.error]
                 ELSE [printed |-> Append(listing, "Total"), error |-> ""]

(***************************************************************************)
(* State.                                                                  *)
(***************************************************************************)
VARIABLES
    args,        \* what docopt hands to _validate
    valid,       \* what _validate returned
    mpc,         \* where the main thread is
    printed,     \* what the main thread has printed
    diff_result, \* the DeepDiff of DBDiffBase.diff
    db,          \* per side: the catalog of the database behind the address
    lpc,         \* per side: where the load is
    txn,         \* per side: the connection's transaction
    funcs,       \* per side: the routines the connection's session sees
    stmts,       \* per side: the statements the load has issued, in order
    rows,        \* per side: what cur.fetchall() returned
    ri,          \* per side: rows stored so far
    described,   \* per side: the describe-table texts obtained, in order
    table_data,  \* per side: the Document
    raw_schema,  \* normalizer: the text
    exclued_keywords, \* normalizer: the excluded substrings
    npc,         \* normalizer: where the run is
    schema_doc,  \* normalizer: the result for raw_schema
    first_doc    \* normalizer: the result for the text before any reordering

progVars ==
    << args, valid, mpc, printed, diff_result, db, lpc, txn, funcs, stmts, rows,
       ri, described, table_data >>

normVars == << raw_schema, exclued_keywords, npc, schema_doc, first_doc >>

vars == << progVars, normVars >>

(***************************************************************************)
(* Initial states: the arguments, and a catalog behind each address.  The  *)
(* relations a category's statements never read are left out of the        *)
(* catalog, and no database stands behind an absent target.                *)
(***************************************************************************)
TypeNames ==
    { DIFF_TYPE_TABLE_COUNT, DIFF_TYPE_TABLE_NAME, DIFF_TYPE_ROW_COUNT,
      DIFF_TYPE_TABLE_SCHEMA, DIFF_TYPE_TABLE_SIZE, DIFF_TYPE_INDEX_SIZE,
      DIFF_TYPE_TABLE_TOTAL_SIZE, DIFF_TYPE_SEQUENCE, "table_rows" }

ArgsSpace ==
    [type : TypeNames,
     source : {Str(<<>>), Str(TEST_SOURCE), Str(SOURCE_DSN)},
     target : {None, Str(<<>>), Str(TEST_TARGET), Str(TARGET_DSN)},
     version : {FALSE},
     verbose : BOOLEAN,
     help : {FALSE}]

NoCatalog == [tables |-> {}, sequences |-> {}]

CatalogsFor(t) ==
    IF t = DIFF_TYPE_SEQUENCE
    THEN {[tables |-> {}, sequences |-> c] : c \in Catalogs}
    ELSE {[tables |-> c, sequences |-> {}] : c \in Catalogs}

NormIdle ==
    /\ raw_schema = <<>>
    /\ exclued_keywords = {}
    /\ npc = "off"
    /\ schema_doc = Returned(<<>>)
    /\ first_doc = Returned(<<>>)

Init ==
    /\ args \in ArgsSpace
    /\ valid = Raised("")
    /\ mpc = "start"
    /\ printed = <<>>
    /\ diff_result = NoDiff
    /\ db \in [Sides -> CatalogsFor(args.type)]
    /\ ~Truthy(args.target) => db["target"] = NoCatalog
    /\ lpc = [s \in Sides |-> "new"]
    /\ txn = [s \in Sides |-> "none"]
    /\ funcs = [s \in Sides |-> {}]
    /\ stmts = [s \in Sides |-> <<>>]
    /\ rows = [s \in Sides |-> <<>>]
    /\ ri = [s \in Sides |-> 0]
    /\ described = [s \in Sides |-> <<>>]
    /\ table_data = [s \in Sides |-> <<>>]
    /\ NormIdle

(***************************************************************************)
(* main, _validate, diff_or_info and DBDiffBase.diff: the main thread.     *)
(***************************************************************************)
loadVars == << db, lpc, txn, funcs, stmts, rows, ri, described, table_data >>

\* the class of the run and the address of a side, from the validated args
Class == DiffClassMapper[valid.value.type]

Dsn(s) == IF s = "source" THEN valid.value.source.str ELSE valid.value.target.str

\* one dict shared by the two instances
SharedOwner(s) == "source"

\* self.table_data: each instance has the dict its __init__ made
Owner(s) == s

\* a load has ended: it returned, or exit() or another exception left it
Finished(s) == lpc[s] \in {"returned", "exited", "raised"}

\* main: args = _validate(args)
Validate ==
    /\ mpc = "start"
    /\ valid' = _validate(args)
    /\ mpc' = IF valid'.error = "" THEN "validated" ELSE "rejected"
    /\ UNCHANGED << args, printed, diff_result, loadVars, normVars >>

\* diff: thread_pool[0].start()
StartSource ==
    /\ mpc = "validated"
    /\ Truthy(valid.value.target)
    /\ mpc' = "started_source"
    /\ lpc' = [lpc EXCEPT !["source"] = "connect"]
    /\ UNCHANGED << args, valid, printed, diff_result, db, txn, funcs, stmts,
                    rows, ri, described, table_data, normVars >>

\* diff: thread_pool[1].start()
StartTarget ==
    /\ mpc = "started_source"
    /\ mpc' = "started"
    /\ lpc' = [lpc EXCEPT !["target"] = "connect"]
    /\ UNCHANGED << args, valid, printed, diff_result, db, txn, funcs, stmts,
                    rows, ri, described, table_data, normVars >>

\* diff: thread_pool[0].join(); a thread that exit() left has ended too
JoinSource ==
    /\ mpc = "started"
    /\ Finished("source")
    /\ mpc' = "joined_source"
    /\ UNCHANGED << args, valid, printed, diff_result, loadVars, normVars >>

\* a loop over the pool that leaves the second thread unjoined
LeaveTargetUnjoined ==
    /\ mpc = "joined_source"
    /\ mpc' = "joined"
    /\ UNCHANGED << args, valid, printed, diff_result, loadVars, normVars >>

\* diff: thread_pool[1].join()
JoinTarget ==
    /\ mpc = "joined_source"
    /\ Finished("target")
    /\ mpc' = "joined"
    /\ UNCHANGED << args, valid, printed, diff_result, loadVars, normVars >>

\* diff, lines 161-171, and the printing of diff_or_info, lines 551-556
Diff ==
    /\ mpc = "joined"
    /\ diff_result' = DeepDiff(table_data[Owner("source")], table_data[Owner("target")])
    /\ printed' = (IF valid.value.verbose THEN <<"Source: ", "Target: ">> ELSE <<>>)
                      \o <<"Diff Result:">>
                      \o (IF DiffTruthy(diff_result')
                          THEN <<"diff_result">>
                          ELSE <<"They are the same.">>)
    /\ mpc' = "done"
    /\ UNCHANGED << args, valid, loadVars, normVars >>

\* diff_or_info without a target: src_db.load() runs in the main thread
InfoLoad ==
    /\ mpc = "validated"
    /\ ~Truthy(valid.value.target)
    /\ mpc' = "load"
    /\ lpc' = [lpc EXCEPT !["source"] = "connect"]
    /\ UNCHANGED << args, valid, printed, diff_result, db, txn, funcs, stmts,
                    rows, ri, described, table_data, normVars >>

\* exit() or an exception of the load ends the process
InfoExit ==
    /\ mpc = "load"
    /\ lpc["source"] \in {"exited", "raised"}
    /\ mpc' = "aborted"
    /\ UNCHANGED << args, valid, printed, diff_result, loadVars, normVars >>

\* diff_or_info, lines 561-580
InfoReport ==
    /\ mpc = "load"
    /\ lpc["source"] = "returned"
    /\ LET r == InfoResult(valid.value.type, table_data[Owner("source")],
                           valid.value.verbose)
       IN  /\ printed' = r.printed
           /\ mpc' = IF r.error = "" THEN "done" ELSE "crashed"
    /\ UNCHANGED << args, valid, diff_result, loadVars, normVars >>

(***************************************************************************)
(* load of each class, one step per round trip to the database or to psql  *)
(* and one per stored row.  connection.cursor() makes a local object on    *)
(* the connection create_conn has just opened and is no step of its own.   *)
(* psycopg2 opens a transaction at the first statement and the program     *)
(* never commits it.                                                       *)
(***************************************************************************)
mainVars == << args, valid, mpc, printed, diff_result >>

\* where load goes after create_conn
AfterConnect == IF Class \in HelperClasses THEN "create" ELSE "query"

\* where load goes after the `for row in rows` loop
AfterRows(doc) ==
    CASE Class \in HelperClasses -> "drop"
      [] Class = "DBTableSchemaDiff" -> IF doc = <<>> THEN "returned" ELSE "describe"
      [] OTHER -> "returned"

\* create_conn: psycopg2.connect(self.dsn), and exit() when it raises
create_conn(s) ==
    /\ lpc[s] = "connect"
    /\ \E ok \in BOOLEAN :
          /\ ok => IsConnectionForm(Dsn(s))
          /\ lpc' = [lpc EXCEPT ![s] = IF ok THEN AfterConnect ELSE "exited"]
    /\ UNCHANGED << mainVars, db, txn, funcs, stmts, rows, ri, described,
                    table_data, normVars >>

\* cur.execute(CREATE_..._FUNC_SQL); when it raises, exit() in the except
\* clause and then the finally clause.  A failed statement aborts the
\* transaction, and nothing the transaction created is visible any more.
CreateFunc(s) ==
    /\ lpc[s] = "create"
    /\ stmts' = [stmts EXCEPT ![s] = Append(@, "create")]
    /\ \E ok \in BOOLEAN :
          IF ok
          THEN /\ funcs' = [funcs EXCEPT ![s] = @ \cup {CreateFuncSql(Class)}]
               /\ txn' = [txn EXCEPT ![s] = "open"]
               /\ lpc' = [lpc EXCEPT ![s] = "query"]
          ELSE /\ funcs' = [funcs EXCEPT ![s] = {}]
               /\ txn' = [txn EXCEPT ![s] = "aborted"]
               /\ lpc' = [lpc EXCEPT ![s] = "drop"]
    /\ UNCHANGED << mainVars, db, rows, ri, described, table_data, normVars >>

\* cur.execute(the category's query) and cur.fetchall()
Query(s) ==
    /\ lpc[s] = "query"
    /\ stmts' = [stmts EXCEPT ![s] = Append(@, "query")]
    /\ \E ok \in BOOLEAN :
          IF ok
          THEN \E fetched \in FetchAll(Class, db[s]) :
                  /\ rows' = [rows EXCEPT ![s] = fetched]
                  /\ txn' = [txn EXCEPT ![s] = "open"]
                  /\ lpc' = [lpc EXCEPT ![s] =
                                IF fetched = <<>>
                                THEN AfterRows(table_data[Owner(s)])
                                ELSE "rows"]
                  /\ UNCHANGED funcs
          ELSE /\ funcs' = [funcs EXCEPT ![s] = {}]
               /\ txn' = [txn EXCEPT ![s] = "aborted"]
               /\ lpc' = [lpc EXCEPT ![s] =
                             IF Class \in HelperClasses THEN "drop" ELSE "exited"]
               /\ UNCHANGED rows
    /\ UNCHANGED << mainVars, db, ri, described, table_data, normVars >>

\* one turn of `for row in rows: self.table_data[...] = ...`
StoreRow(s) ==
    /\ lpc[s] = "rows"
    /\ LET e == RowEntry(Class, rows[s][ri[s] + 1])
           doc == Put(table_data[Owner(s)], e.key, e.value)
       IN  /\ table_data' = [table_data EXCEPT ![Owner(s)] = doc]
           /\ ri' = [ri EXCEPT ![s] = @ + 1]
           /\ lpc' = [lpc EXCEPT ![s] =
                         IF ri[s] + 1 = Len(rows[s]) THEN AfterRows(doc) ELSE "rows"]
    /\ UNCHANGED << mainVars, db, txn, funcs, stmts, rows, described, normVars >>

\* the finally clause: cur.execute(REMOVE_..._FUNC_SQL).  In an aborted
\* transaction the server rejects it, and the exception leaves the load.
DropFunc(s) ==
    /\ lpc[s] = "drop"
    /\ stmts' = [stmts EXCEPT ![s] = Append(@, "drop")]
    /\ \E ok \in BOOLEAN :
          IF ok /\ txn[s] # "aborted"
          THEN /\ funcs' = [funcs EXCEPT ![s] = @ \ {RemoveFuncSql(Class)}]
               /\ lpc' = [lpc EXCEPT ![s] = "returned"]
               /\ UNCHANGED txn
          ELSE /\ funcs' = [funcs EXCEPT ![s] = {}]
               /\ txn' = [txn EXCEPT ![s] = "aborted"]
               /\ lpc' = [lpc EXCEPT ![s] = "raised"]
    /\ UNCHANGED << mainVars, db, rows, ri, described, table_data, normVars >>

\* one turn of the loop of _load_table_schema: psql's \d for the next key,
\* which psql resolves to a table of that name, and _format_raw_schema of
\* what it printed; exit() when either raises
Describe(s) ==
    /\ lpc[s] = "describe"
    /\ LET doc == table_data[Owner(s)]
           k == Len(described[s]) + 1
       IN  \/ /\ lpc' = [lpc EXCEPT ![s] = "exited"]
              /\ UNCHANGED << described, table_data >>
           \/ /\ PsqlCommandArgs(Dsn(s))
              /\ \E rel \in {r \in db[s].tables : r.name = doc[k].key} :
                    LET schema == DescribeOutput(rel)
                        r == _format_raw_schema(schema, IGNORE_SCHEMA_SECTIONS)
                    IN  /\ r.error = ""
                        /\ table_data' = [table_data EXCEPT ![Owner(s)] =
                                             Put(@, doc[k].key, DictVal(r.value))]
                        /\ described' = [described EXCEPT ![s] = Append(@, schema)]
                        /\ lpc' = [lpc EXCEPT ![s] =
                                      IF k = Len(doc) THEN "returned" ELSE "describe"]
    /\ UNCHANGED << mainVars, db, txn, funcs, stmts, rows, ri, normVars >>

Load(s) ==
    \/ create_conn(s)
    \/ CreateFunc(s)
    \/ Query(s)
    \/ StoreRow(s)
    \/ DropFunc(s)
    \/ Describe(s)

Next ==
    \/ Validate
    \/ StartSource
    \/ StartTarget
    \/ JoinSource
    \/ JoinTarget
    \/ Diff
    \/ InfoLoad
    \/ InfoExit
    \/ InfoReport
    \/ \E s \in Sides : Load(s)

Spec == Init /\ [][Next]_vars
(***************************************************************************)
(* The normalizer on its own: _format_raw_schema applied to every text of  *)
(* at most MaxLines lines, and to the texts that list the same column rows *)
(* and section lines in another order.                                     *)
(***************************************************************************)
TABLE_LINE == <<" ", "Table", " ", "users">>

COLUMN_LINE == <<" ", "Column", " ", "|", " ", "Type">>

SEPARATOR_LINE == <<"---">>

\* the lines a text is made of: the three header lines, three rows (one
\* names a replication schema, one is a column whose name begins with
\* "Column"), two of the four section titles, a label that is not among
\* the four, and the empty line
LinePool ==
    { TABLE_LINE, COLUMN_LINE, SEPARATOR_LINE,
      <<" ", "a", " ", "|", " ", "int">>,
      <<"bucardo", " ", "|", "int">>,
      <<"Column", "x", "|", "int">>,
      <<"Indexes:">>, <<"Triggers:">>, <<"Check constraints:">>,
      <<>> }

Texts == UNION {[1..n -> LinePool] : n \in 0..MaxLines}

ExcludedSets == {{}, IGNORE_SCHEMA_SECTIONS}

\* the lines of a text, as written
RawLines(text) == LET pieces == Split(text, "\n") IN SubSeq(pieces, 1, Len(pieces) - 1)

IsHeaderLine(l) == l \in {TABLE_LINE, COLUMN_LINE, SEPARATOR_LINE}

IsLabel(l) == IsSectionTitle(Strip(l)) \/ Strip(l) = <<"Check constraints:">>

\* a column row or a line of a section
IsContentLine(l) == l # <<>> /\ ~IsHeaderLine(l) /\ ~IsLabel(l)

\* the header lines a text has come first, each at most once, in the order
\* table header, column header, separator
WellFormed(lines) ==
    LET h == Cardinality({i \in 1..Len(lines) : IsHeaderLine(lines[i])})
        rank(l) == CASE l = TABLE_LINE -> 1 [] l = COLUMN_LINE -> 2 [] OTHER -> 3
    IN  /\ \A i \in 1..h : IsHeaderLine(lines[i])
        /\ \A i, j \in 1..h : i < j => rank(lines[i]) < rank(lines[j])

SwapLines(lines, i) ==
    [k \in 1..Len(lines) |->
        IF k = i THEN lines[i + 1] ELSE IF k = i + 1 THEN lines[i] ELSE lines[k]]

ProgIdle ==
    /\ args = [type |-> DIFF_TYPE_TABLE_SCHEMA, source |-> Str(SOURCE_DSN),
               target |-> None, version |-> FALSE, verbose |-> FALSE, help |-> FALSE]
    /\ valid = Raised("")
    /\ mpc = "off"
    /\ printed = <<>>
    /\ diff_result = NoDiff
    /\ db = [s \in Sides |-> NoCatalog]
    /\ lpc = [s \in Sides |-> "new"]
    /\ txn = [s \in Sides |-> "none"]
    /\ funcs = [s \in Sides |-> {}]
    /\ stmts = [s \in Sides |-> <<>>]
    /\ rows = [s \in Sides |-> <<>>]
    /\ ri = [s \in Sides |-> 0]
    /\ described = [s \in Sides |-> <<>>]
    /\ table_data = [s \in Sides |-> <<>>]

InitNorm ==
    /\ ProgIdle
    /\ raw_schema \in {JoinLines(t) : t \in Texts}
    /\ exclued_keywords \in ExcludedSets
    /\ npc = "text"
    /\ schema_doc = Returned(<<>>)
    /\ first_doc = Returned(<<>>)

\* self._format_raw_schema(schema, exclued_keywords)
Format ==
    /\ npc = "text"
    /\ schema_doc' = _format_raw_schema(raw_schema, exclued_keywords)
    /\ first_doc' = schema_doc'
    /\ npc' = "formatted"
    /\ UNCHANGED << progVars, raw_schema, exclued_keywords >>

\* the same text with two neighbouring column rows, or two neighbouring
\* lines of one section, in the other order, and its normal form
Reorder ==
    /\ npc = "formatted"
    /\ LET lines == RawLines(raw_schema)
       IN  /\ WellFormed(lines)
           /\ \E i \in 1..(Len(lines) - 1) :
                 /\ IsContentLine(lines[i])
                 /\ IsContentLine(lines[i + 1])
                 /\ lines[i] # lines[i + 1]
                 /\ raw_schema' = JoinLines(SwapLines(lines, i))
    /\ schema_doc' = _format_raw_schema(raw_schema', exclued_keywords)
    /\ UNCHANGED << progVars, exclued_keywords, npc, first_doc >>

NextNorm == Format \/ Reorder

SpecNorm == InitNorm /\ [][NextNorm]_vars
(***************************************************************************)
(* Properties.                                                             *)
(***************************************************************************)
\* the run is past validation
Running == mpc \notin {"start", "rejected", "off"}

\* the run compares two databases
TwoSided == Running /\ Truthy(valid.value.target)

\* the Document as a mapping, its insertion order forgotten
AsMap(doc) == [k \in Keys(doc) |-> Get(doc, k)]

\* C1: in a two-sided comparison, when the source load or the target load
\* fails, no structural diff is computed or reported
C1_FailedLoadAbortsDiff ==
    (TwoSided /\ \E s \in Sides : lpc[s] \in {"exited", "raised"})
        => (mpc # "done" /\ printed = <<>>)

\* C2: once the load of the sequence category has ended, on any path, the
\* routine it created is no longer among those the session sees
C2_SequenceHelperRemoved ==
    \A s \in Sides :
        (Running /\ Class = "DBSequenceDiff" /\ Finished(s))
            => CREATE_GET_SEQUENCE_LAST_VALUE_FUNC_SQL \notin funcs[s]

\* C3: in the row count load the routine is created before the counting
\* query is issued, the drop statement is the last statement of the call on
\* every path that issued a statement, and the routine exists only while
\* the call runs
C3_RowCountHelperScoped ==
    \A s \in Sides :
        (Running /\ Class = "DBTableRowCountDiff") =>
            /\ \A i \in 1..Len(stmts[s]) :
                  stmts[s][i] = "query" => \E j \in 1..(i - 1) : stmts[s][j] = "create"
            /\ \A i \in 1..Len(stmts[s]) :
                  stmts[s][i] = "drop" => i = Len(stmts[s]) /\ i > 1
            /\ (Finished(s) /\ stmts[s] # <<>>) => stmts[s][Len(stmts[s])] = "drop"
            /\ CREATE_ROW_COUNT_FUNC_SQL \in funcs[s] => lpc[s] \in {"query", "rows", "drop"}

\* C3 witness: a row count load whose counting query failed has ended
C3_Witness ==
    /\ Running
    /\ Class = "DBTableRowCountDiff"
    /\ lpc["target"] = "raised"
    /\ stmts["target"] = <<"create", "query", "drop">>
    /\ lpc["source"] = "returned"
    /\ Len(table_data["source"]) = 2

\* C4: in info-only mode, after a load that returned, the operation
\* completes with the total printed and does not end in an error
C4_InfoProducesSummary ==
    (Running /\ ~Truthy(valid.value.target) /\ lpc["source"] = "returned" /\ mpc # "load")
        => (mpc = "done" /\ printed # <<>> /\ printed[Len(printed)] = "Total")

\* the Document a load run on its own leaves after storing the given rows
RECURSIVE StoreRows(_, _, _)
StoreRows(class, fetched, doc) ==
    IF fetched = <<>> THEN doc
    ELSE LET e == RowEntry(class, Head(fetched))
         IN  StoreRows(class, Tail(fetched), Put(doc, e.key, e.value))

\* and after normalizing the given describe-table texts, for its first keys
RECURSIVE StoreSchemas(_, _, _)
StoreSchemas(doc, texts, k) ==
    IF k > Len(texts) THEN doc
    ELSE StoreSchemas(
             Put(doc, doc[k].key,
                 DictVal(_format_raw_schema(texts[k], IGNORE_SCHEMA_SECTIONS).value)),
             texts, k + 1)

SequentialLoad(s) ==
    StoreSchemas(StoreRows(Class, SubSeq(rows[s], 1, ri[s]), <<>>), described[s], 1)

\* C5: whatever the interleaving of the two loads, each side's Document is
\* the one its load builds when run on its own from the answers of its own
\* database: at every step, and so when the diff is computed
C5_ConcurrentLoadsAsSequential ==
    Running => \A s \in Sides : table_data[s] = SequentialLoad(s)

\* C5 witness: both loads have been joined with different two-key Documents
C5_Witness ==
    /\ mpc = "joined"
    /\ Len(table_data["source"]) = 2
    /\ Len(table_data["target"]) = 2
    /\ Keys(table_data["source"]) # Keys(table_data["target"])

\* C6: the diff reports exactly the keys of the source Document missing in
\* the target as removed, exactly the keys of the target missing in the
\* source as added, exactly the common keys with unequal values as changed,
\* and is empty iff the two Documents are the same mapping, whatever the
\* order their keys were inserted in
C6_DiffExact ==
    mpc = "done" =>
        LET a == table_data["source"]
            b == table_data["target"]
        IN  /\ diff_result.dictionary_item_removed = Keys(a) \ Keys(b)
            /\ diff_result.dictionary_item_added = Keys(b) \ Keys(a)
            /\ diff_result.values_changed =
                   {k \in Keys(a) \cap Keys(b) : AsMap(a)[k] # AsMap(b)[k]}
            /\ ~DiffTruthy(diff_result) <=> AsMap(a) = AsMap(b)
            /\ printed[Len(printed)] = "They are the same." <=> AsMap(a) = AsMap(b)

\* C6 witness: a diff with a removed, an added and a changed key
C6_Witness ==
    /\ mpc = "done"
    /\ diff_result.dictionary_item_removed # {}
    /\ diff_result.dictionary_item_added # {}
    /\ diff_result.values_changed # {}

\* C7: two texts with the same column rows and, per section, the same
\* lines, in different orders, have the same Schema Document
C7_OrderInsensitive == npc = "formatted" => schema_doc = first_doc

\* the entries of its labelled sections
SectionEntries(doc) ==
    UNION {{doc[k][i] : i \in 1..Len(doc[k])} : k \in (DOMAIN doc) \ {ColumnsKey}}

\* a line appears in the Schema Document: as a section line, or as a
\* column row
Appears(item, doc) ==
    \/ item \in SectionEntries(doc)
    \/ ColumnFields(item) \in {doc[ColumnsKey][i] : i \in 1..Len(doc[ColumnsKey])}

\* keyword in item, read off the text
HasExcluded(item) == \E i \in 1..Len(item) : item[i] \in exclued_keywords

\* C8, as stated: no line with an excluded substring appears anywhere in
\* the Schema Document, and every other line of the text does
C8_ExclusionEveryLine ==
    (npc = "formatted" /\ schema_doc.error = "") =>
        \A l \in {RawLines(raw_schema)[i] : i \in 1..Len(RawLines(raw_schema))} \ {<<>>} :
            Appears(Strip(l), schema_doc.value) <=> ~HasExcluded(l)

\* C8, amended: no entry of a labelled section has an excluded substring;
\* a line after a section title, with no excluded substring, is an entry of
\* the section of the nearest title before it unless that title comes again
\* later in the text; a line before the first section title that does not
\* begin like a header line is a column row of the Columns section,
\* excluded substring or not
C8_ExclusionInSections ==
    (npc = "formatted" /\ schema_doc.error = "") =>
        LET items == ItemList(raw_schema)
            doc == schema_doc.value
            titles == {i \in 1..Len(items) : IsSectionTitle(items[i])}
            before(i) == {j \in titles : j < i}
            nearest(i) == CHOOSE j \in before(i) : \A j2 \in before(i) : j2 <= j
        IN  /\ \A e \in SectionEntries(doc) : ~HasExcluded(e)
            /\ \A i \in (1..Len(items)) \ titles :
                  (/\ before(i) # {}
                   /\ ~HasExcluded(items[i])
                   /\ ~\E j \in titles : j > i /\ items[j] = items[nearest(i)])
                      => \E n \in 1..Len(doc[items[nearest(i)]]) :
                            doc[items[nearest(i)]][n] = items[i]
            /\ \A i \in (1..Len(items)) \ titles :
                  (/\ before(i) = {}
                   /\ ~\E h \in {"Table", "Column", "---"} : StartsWith(items[i], h))
                      => \E n \in 1..Len(doc[ColumnsKey]) :
                            doc[ColumnsKey][n] = ColumnFields(items[i])

\* C8 witness: a text with a column row and a section line that both name
\* an excluded schema has been normalized
C8_Witness ==
    /\ npc = "formatted"
    /\ schema_doc.error = ""
    /\ exclued_keywords = IGNORE_SCHEMA_SECTIONS
    /\ RawLines(raw_schema) =
           << <<"bucardo", " ", "|", "int">>, <<"Indexes:">>,
              <<"bucardo", " ", "|", "int">>, <<" ", "a", " ", "|", " ", "int">> >>

\* the eight recognized category names
RecognizedNames ==
    { "table_name", "table_count", "row_count", "table_schema", "table_size",
      "index_size", "table_total_size", "sequence" }

\* a connection has been attempted
ConnectAttempted == \E s \in Sides : lpc[s] # "new"

\* C9, as stated: the run is rejected, before any connection is attempted,
\* when the category is not recognized or the target address is not a valid
\* connection form; valid arguments are returned unchanged
C9_ValidationGate ==
    mpc \notin {"start", "off"} =>
        /\ (\/ args.type \notin RecognizedNames
            \/ (~args.target.none /\ ~IsConnectionForm(args.target.str)))
               => (mpc = "rejected" /\ ~ConnectAttempted)
        /\ mpc # "rejected" => valid.value = args

\* C9, amended: the run is rejected, before any connection is attempted,
\* exactly when the category is not recognized or the source address is
\* empty; the target may be absent or any string; arguments that pass are
\* returned unchanged
C9_ValidationGateSource ==
    /\ mpc \notin {"start", "off"} =>
          /\ mpc = "rejected" <=>
                 (args.type \notin RecognizedNames \/ args.source.str = <<>>)
          /\ mpc # "rejected" => valid.value = args
    /\ ConnectAttempted => (mpc \notin {"start", "rejected"} /\ valid.value = args)

\* C9 witness: a target that is no connection form has passed validation
\* and its connection is being attempted
C9_Witness ==
    /\ mpc = "started"
    /\ args.target = Str(TEST_TARGET)
    /\ lpc["target"] = "connect"

\* C10: the Document of a table-keyed load that returned has one entry per
\* base table outside the ignored schemas
C10_OneEntryPerTable ==
    \A s \in Sides :
        (/\ Running
         /\ Class \in TableClasses
         /\ lpc[s] = "returned")
            => Len(table_data[s]) = Cardinality(TABLE_BASIC_INFO_SQL(db[s]))

\* the names that only relations of the ignored schemas bear in a catalog
IgnoredOnlyNames(catalog) ==
    LET all == catalog.tables \cup catalog.sequences
    IN  { r.name : r \in {x \in all : x.schema \in IGNORE_SCHEMAS} }
            \ { r.name : r \in {x \in all : x.schema \notin IGNORE_SCHEMAS} }

\* C11: in every category, sequences included, no table and no sequence of
\* an ignored schema is a key of the Document a load builds
C11_IgnoredSchemasExcluded ==
    \A s \in Sides :
        Running => Keys(table_data[s]) \cap IgnoredOnlyNames(db[s]) = {}

\* the same for the categories keyed by table
C11_IgnoredSchemasExcludedTables ==
    \A s \in Sides :
        (Running /\ Class \in TableClasses)
            => Keys(table_data[s]) \cap IgnoredOnlyNames(db[s]) = {}

\* C12: in a two-sided run, a step that computes the structural diff or
\* prints (the two Documents, the result) is taken only when the source
\* load and the target load have both ended, and from then on the two
\* Documents stay as they are
C12_JoinBeforeDiff ==
    [][ /\ (TwoSided /\ (diff_result' # diff_result \/ printed' # printed))
            => (Finished("source") /\ Finished("target"))
        /\ (TwoSided /\ mpc = "done") => table_data' = table_data ]_vars

\* C12 witness: a verbose two-sided run has printed both Documents and the
\* result, the source having loaded two tables and the target one
C12_Witness ==
    /\ TwoSided
    /\ mpc = "done"
    /\ valid.value.verbose
    /\ Len(printed) = 4
    /\ printed[1] = "Source: "
    /\ lpc = [s \in Sides |-> "returned"]
    /\ Len(table_data["source"]) = 2
    /\ Len(table_data["target"]) = 1
    /\ diff_result # NoDiff

\* a describe-table text as the claim of totality takes it: no blank
\* lines, the header lines it has first and in order, then column rows,
\* then sections, each a title and the lines after it; no row or section
\* line begins like a header line
IsDescribeText(lines) ==
    /\ WellFormed(lines)
    /\ \A i \in 1..Len(lines) :
          /\ lines[i] # <<>>
          /\ IsHeaderLine(lines[i])
                \/ ~\E h \in {"Table", "Column", "---"} : StartsWith(Strip(lines[i]), h)

\* C13: for every describe-table text of that form, with or without header
\* lines, with or without column rows, with a section title at the end of
\* the input or not, _format_raw_schema returns a Schema Document and
\* does not raise
C13_NormalizerTotal ==
    (npc = "formatted" /\ IsDescribeText(RawLines(raw_schema)))
        => schema_doc.error = ""

\* on these texts item_list[index] runs past the end exactly when nothing
\* is left after the header lines or the last line is one of the four
\* titles
C13_RaisesExactlyAtEnd ==
    (npc = "formatted" /\ IsDescribeText(RawLines(raw_schema))) =>
        LET lines == RawLines(raw_schema)
            n == Len(lines)
        IN  (schema_doc.error = "IndexError")
                <=> \/ \A i \in 1..n : IsHeaderLine(lines[i])
                    \/ IsSectionTitle(Strip(lines[n]))

\* the positions of the section labels in the lines of a text
LabelsOf(items) == {i \in 1..Len(items) : IsLabel(items[i])}

\* the position of the next label after position i, or one past the end
NextLabel(items, i) ==
    LET later == {j \in LabelsOf(items) : j > i}
    IN  IF later = {} THEN Len(items) + 1
        ELSE CHOOSE j \in later : \A j2 \in later : j <= j2

\* the lines between the label at position i and the next label that have
\* no excluded substring, sorted
LinesUnder(items, i) ==
    LET kept(x) == ~IsExcluded(x, exclued_keywords)
    IN  SortStrs(SelectSeq(SubSeq(items, i + 1, NextLabel(items, i) - 1), kept))

\* the column rows between the header lines and the first label, sorted
RowsAbove(items, headers) ==
    LET above == SubSeq(items, headers + 1, NextLabel(items, 0) - 1)
    IN  SortLists([k \in 1..Len(above) |-> ColumnFields(above[k])])

\* the Schema Document has one section per label of the text, holding the
\* lines under that label, and the Columns section holds the column rows
SectionsKeyed(lines, doc) ==
    LET items == [k \in 1..Len(lines) |-> Strip(lines[k])]
        headers == Cardinality({k \in 1..Len(lines) : IsHeaderLine(lines[k])})
    IN  /\ DOMAIN doc = {ColumnsKey} \cup {items[i] : i \in LabelsOf(items)}
        /\ \A i \in LabelsOf(items) : doc[items[i]] = LinesUnder(items, i)
        /\ doc[ColumnsKey] = RowsAbove(items, headers)

\* each label occurs once in the text
LabelsOnce(lines) ==
    \A i, j \in 1..Len(lines) :
        (IsLabel(lines[i]) /\ IsLabel(lines[j]) /\ Strip(lines[i]) = Strip(lines[j]))
            => i = j

\* C14: for every label of the text, one of the four fixed ones or another
\* that psql prints, the returned Schema Document has a section keyed by
\* that label holding the non-excluded lines up to the next label, and no
\* line of a labelled section is in the Columns section or in another one
C14_SectionPerLabel ==
    (/\ npc = "formatted"
     /\ schema_doc.error = ""
     /\ IsDescribeText(RawLines(raw_schema))
     /\ LabelsOnce(RawLines(raw_schema)))
        => SectionsKeyed(RawLines(raw_schema), schema_doc.value)

\* the same for the texts whose labels are all among the four fixed titles
C14_SectionPerFixedTitle ==
    (/\ npc = "formatted"
     /\ schema_doc.error = ""
     /\ IsDescribeText(RawLines(raw_schema))
     /\ LabelsOnce(RawLines(raw_schema))
     /\ \A i \in 1..Len(RawLines(raw_schema)) :
           IsLabel(RawLines(raw_schema)[i])
               => IsSectionTitle(Strip(RawLines(raw_schema)[i])))
        => SectionsKeyed(RawLines(raw_schema), schema_doc.value)
====
